---- MODULE Spec2Model ----
(***************************************************************************)
(* A model of gh2csv (src/gh2csv.py): the number-list parser, the record   *)
(* filter of collect_gh_attrs, the per-target pipeline of run_arepo and    *)
(* the CSV writer write_to_csv.                                            *)
(*                                                                         *)
(* Python strings are TLA+ strings; they are taken apart character by      *)
(* character with SubSeq and Len, so a search, a split or a conversion is  *)
(* computed the way the code computes it.  A Python dict whose keys may be *)
(* missing is a function whose DOMAIN is the set of keys present.          *)
(***************************************************************************)
EXTENDS Integers, Sequences, FiniteSets, TLC

VARIABLES
    nums_inp,      \* interpolate_nums: the argument
    nums_out,      \* interpolate_nums: the value returned
    filters,       \* collect_gh_attrs: yml_arepo['filters']
    attrs_raw,     \* collect_gh_attrs: the page of raw records
    attrs,         \* collect_gh_attrs: the list returned
    pc,            \* position of the function under study: "input" | "done"
    yml,           \* run_arepo: the configuration object, one entry per target
    yml_loaded,    \* the configuration as read_yaml returned it (never assigned)
    active_repos,  \* yml['run']['active_repos']
    scheduled,     \* yml['run']['schedule']['toggle']
    remote,        \* the records the data source holds, per target
    files,         \* the destination files, per target
    run_pos,       \* 0: no run in progress; i: active_repos[i] is next
    runs,          \* number of runs of run_arepo started so far
    exited,        \* "": running; else what ended the process
    attempted,     \* targets whose pipeline was entered in the current run
    last,          \* per target, of its last pipeline: the requests sent, the
                   \* records collected, the file before write_to_csv, the outcome
    clock          \* index in Instants of the last datetime.today()

vars == <<nums_inp, nums_out, filters, attrs_raw, attrs, pc, yml, yml_loaded,
          active_repos, scheduled, remote, files, run_pos, runs, exited,
          attempted, last, clock>>

filter_vars == <<filters, attrs_raw, attrs>>
interp_vars == <<nums_inp, nums_out>>
run_vars == <<yml, yml_loaded, active_repos, scheduled, remote, files, run_pos,
              runs, exited, attempted, last, clock>>

-----------------------------------------------------------------------------
(* Bounds of the model.                                                    *)

MaxNumTokens == 2      \* length of a configured numbers list
MaxLabelTokens == 2    \* length of a configured labels list
MaxStringTokens == 2   \* length of a configured strings list
MaxRecLabels == 2      \* number of labels of a record
MaxNumber == 11        \* largest record number
MaxRuns == 2           \* runs of run_arepo in one process
MaxIssues == 2         \* records the data source holds for one target

-----------------------------------------------------------------------------
(* Strings.                                                                *)

EmptyDict == [k \in {} |-> ""]

CharAt(s, i) == SubSeq(s, i, i)

Rest(s, i) == SubSeq(s, i, Len(s))

\* re.search(pat, txt) for a pattern without metacharacters: pat occurs in txt.
Search(pat, txt) ==
    \E i \in 0..(Len(txt) - Len(pat)) : SubSeq(txt, i + 1, i + Len(pat)) = pat

UpperChars == "ABCDEFGHIJKLMNOPQRSTUVWXYZ"
LowerChars == "abcdefghijklmnopqrstuvwxyz"

LowerChar(c) ==
    IF \E i \in 1..Len(UpperChars) : CharAt(UpperChars, i) = c
    THEN CharAt(LowerChars, CHOOSE i \in 1..Len(UpperChars) : CharAt(UpperChars, i) = c)
    ELSE c

RECURSIVE Lower(_)
Lower(s) == IF s = "" THEN "" ELSE LowerChar(CharAt(s, 1)) \o Lower(Rest(s, 2))

\* re.search('(?i)' + pat, txt) for a lower-case pattern without metacharacters.
SearchNoCase(pat, txt) == Search(pat, Lower(txt))

\* sep.join(seq)
RECURSIVE Join(_, _)
Join(seq, sep) ==
    IF seq = <<>> THEN ""
    ELSE IF Len(seq) = 1 THEN seq[1]
    ELSE seq[1] \o sep \o Join(Tail(seq), sep)

IsSpace(c) == c \in {" ", "\t", "\n", "\r"}

RECURSIVE LStrip(_)
LStrip(s) == IF s # "" /\ IsSpace(CharAt(s, 1)) THEN LStrip(Rest(s, 2)) ELSE s

RECURSIVE RStrip(_)
RStrip(s) ==
    IF s # "" /\ IsSpace(CharAt(s, Len(s))) THEN RStrip(SubSeq(s, 1, Len(s) - 1)) ELSE s

\* s.lstrip(c)
RECURSIVE LStripChar(_, _)
LStripChar(s, c) == IF s # "" /\ CharAt(s, 1) = c THEN LStripChar(Rest(s, 2), c) ELSE s

\* Index of the first occurrence of the character c in s (0: none).
FirstIndex(s, c) ==
    IF \E i \in 1..Len(s) : CharAt(s, i) = c
    THEN CHOOSE i \in 1..Len(s) : CharAt(s, i) = c /\ \A j \in 1..(i - 1) : CharAt(s, j) # c
    ELSE 0

\* re.split(r'\s*' + c + r'\s*', s): the text is cut at every c, and the
\* white space that touches a c goes with it.
RECURSIVE ReSplit(_, _)
ReSplit(s, c) ==
    LET i == FirstIndex(s, c) IN
    IF i = 0 THEN <<s>>
    ELSE <<RStrip(SubSeq(s, 1, i - 1))>> \o ReSplit(LStrip(Rest(s, i + 1)), c)

Digits == "0123456789"

DigitVal(c) == (CHOOSE i \in 1..Len(Digits) : CharAt(Digits, i) = c) - 1

RECURSIVE ParseDigits(_)
ParseDigits(s) ==
    IF Len(s) = 1 THEN DigitVal(s)
    ELSE Len(Digits) * ParseDigits(SubSeq(s, 1, Len(s) - 1)) + DigitVal(CharAt(s, Len(s)))

\* int(s) for a string of decimal digits, white space around it allowed.
ParseInt(s) == ParseDigits(RStrip(LStrip(s)))

\* str(n) for an integer n >= 0.
RECURSIVE Fmt(_)
Fmt(n) ==
    IF n < Len(Digits) THEN CharAt(Digits, n + 1)
    ELSE Fmt(n \div Len(Digits)) \o CharAt(Digits, (n % Len(Digits)) + 1)

\* All sequences over S of length at most n.
RECURSIVE SeqsUpTo(_, _)
SeqsUpTo(S, n) ==
    IF n = 0 THEN {<<>>}
    ELSE LET shorter == SeqsUpTo(S, n - 1) IN
         shorter \cup {Append(q, e) : q \in shorter, e \in S}

\* The elements of a sequence.
Range(seq) == {seq[i] : i \in DOMAIN seq}

-----------------------------------------------------------------------------
(* interpolate_nums (src/gh2csv.py:166-189).                               *)

\* sorted(set(...)): the members of S in ascending order.
RECURSIVE SortedSeq(_)
SortedSeq(S) ==
    IF S = {} THEN <<>>
    ELSE LET m == CHOOSE x \in S : \A y \in S : x <= y IN <<m>> \o SortedSeq(S \ {m})

\* TokenNums with line 183 left out: the end of a range is not included.
TokenNums_ExclusiveEnd(_num) ==
    IF Search("-", _num)
    THEN LET parts == ReSplit(_num, "-")
             beg == ParseInt(parts[1])
             end == ParseInt(parts[2])
         IN  [i \in 1..(end - beg) |-> beg + i - 1]
    ELSE <<ParseInt(_num)>>

\* What one token appends to nums_out (lines 181-186); range(beg, end) is
\* empty when end <= beg.
TokenNums(_num) ==
    IF Search("-", _num)
    THEN LET parts == ReSplit(_num, "-")
             beg == ParseInt(parts[1])
             end == ParseInt(parts[2]) + 1
         IN  [i \in 1..(end - beg) |-> beg + i - 1]
    ELSE <<ParseInt(_num)>>

\* nums_out after the loop of lines 180-186.
RECURSIVE NumsAccum(_)
NumsAccum(inp) == IF inp = <<>> THEN <<>> ELSE TokenNums(Head(inp)) \o NumsAccum(Tail(inp))

interpolate_nums(inp) == SortedSeq(Range(NumsAccum(inp)))

-----------------------------------------------------------------------------
(* collect_gh_attrs (src/gh2csv.py:192-303).                               *)
(* A raw record carries number, title, body, state and labels (the names   *)
(* of its label objects, in source order).  The three timestamps are       *)
(* shifted by the code and read by no filter; they are left out.           *)

\* A value of the YAML numbers list: an integer (7) or a string ('84-86').
YamlInt(n) == [kind |-> "int", value |-> n, text |-> ""]
YamlStr(s) == [kind |-> "str", value |-> 0, text |-> s]

\* str(n) of line 245.
Str(n) == IF n.kind = "int" THEN Fmt(n.value) ELSE n.text

\* Lines 216-222: label_names collected, labels replaced by the joined names.
Normalize(attr_raw) ==
    [number |-> attr_raw.number, title |-> attr_raw.title, body |-> attr_raw.body,
     state |-> attr_raw.state, label_names |-> attr_raw.labels,
     labels |-> Join(attr_raw.labels, ", ")]

\* NumbersFilter with line 247 left out: the default stays keep.
NumbersFilter_NoDefaultDrop(is_appendable, flt, attr) == is_appendable

\* Filter 2 (lines 244-250): the value of is_appendable after it.
NumbersFilter(is_appendable, flt, attr) ==
    IF is_appendable /\ "numbers" \in DOMAIN flt
    THEN LET filter_numbers == [i \in DOMAIN flt.numbers |-> Str(flt.numbers[i])] IN
         IF ~SearchNoCase("all", Join(filter_numbers, ";"))
         THEN attr.number \in Range(interpolate_nums(filter_numbers))
         ELSE is_appendable
    ELSE is_appendable

\* The loop of lines 266-272 from the i-th label on.
RECURSIVE LabelsLoop(_, _, _, _)
LabelsLoop(label_names, i, filter_labels, is_appendable) ==
    IF i > Len(label_names) THEN is_appendable
    ELSE LET lab_name == label_names[i]
             lab_name_inverted == "-" \o lab_name
         IN  IF lab_name_inverted \in Range(filter_labels) THEN FALSE
             ELSE LabelsLoop(label_names, i + 1, filter_labels,
                             IF lab_name \in Range(filter_labels) THEN TRUE
                             ELSE is_appendable)

\* LabelsFilter without the is_appendable guard of line 260.
LabelsFilter_Unguarded(is_appendable, flt, attr) ==
    IF "labels" \in DOMAIN flt
    THEN LabelsLoop(attr.label_names, 1, flt.labels,
                    SearchNoCase("all", Join(flt.labels, ";")))
    ELSE is_appendable

\* Filter 3 (lines 260-272).
LabelsFilter(is_appendable, flt, attr) ==
    IF is_appendable /\ "labels" \in DOMAIN flt
    THEN LET filter_labels == flt.labels IN
         LabelsLoop(attr.label_names, 1, filter_labels,
                    SearchNoCase("all", Join(filter_labels, ";")))
    ELSE is_appendable

\* The loop of lines 288-299 from the i-th configured string on.
RECURSIVE StringsLoop(_, _, _, _)
StringsLoop(filter_strings, i, attr, is_appendable) ==
    IF i > Len(filter_strings) THEN is_appendable
    ELSE LET is_exclusion == filter_strings[i] # "" /\ CharAt(filter_strings[i], 1) = "-"
             s == IF is_exclusion THEN LStripChar(filter_strings[i], "-")
                  ELSE filter_strings[i]
         IN  IF Search(s, attr.title) \/ Search(s, attr.body)
             THEN IF is_exclusion THEN FALSE
                  ELSE StringsLoop(filter_strings, i + 1, attr, TRUE)
             ELSE StringsLoop(filter_strings, i + 1, attr, is_appendable)

\* Filter 4 (lines 282-299).
StringsFilter(is_appendable, flt, attr) ==
    IF is_appendable /\ "strings" \in DOMAIN flt
    THEN LET filter_strings == flt.strings IN
         StringsLoop(filter_strings, 1, attr,
                     SearchNoCase("all", Join(filter_strings, ";")))
    ELSE is_appendable

\* Lines 234-301: is_appendable when the record reaches line 301.
IsAppendable(flt, attr) ==
    StringsFilter(LabelsFilter(NumbersFilter(TRUE, flt, attr), flt, attr), flt, attr)

collect_gh_attrs(yml_arepo, raw) ==
    LET normalized == [i \in DOMAIN raw |-> Normalize(raw[i])]
        Kept(attr) == IF "filters" \notin DOMAIN yml_arepo THEN TRUE
                      ELSE IsAppendable(yml_arepo.filters, attr)
    IN  SelectSeq(normalized, Kept)

-----------------------------------------------------------------------------
(* write_to_csv (src/gh2csv.py:381-451).                                   *)
(* A file is [exists, lines]; a line is the text csv.writer wrote, its     *)
(* "\r\n" terminator included.                                             *)

\* d with d[k] = v
Put(d, k, v) == [x \in DOMAIN d \cup {k} |-> IF x = k THEN v ELSE d[x]]

NoFile == [exists |-> FALSE, lines |-> <<>>]

\* The fields whose values are integers; csv.writer writes them with str().
IntFields == {"number", "num_iss_all", "num_iss_open", "num_iss_closed"}

FieldText(name, v) == IF name \in IntFields THEN Fmt(v) ELSE v

RECURSIVE DoubleQuotes(_)
DoubleQuotes(s) ==
    IF s = "" THEN ""
    ELSE (IF CharAt(s, 1) = "\"" THEN "\"\"" ELSE CharAt(s, 1)) \o DoubleQuotes(Rest(s, 2))

\* One field as csv.writer writes it under QUOTE_MINIMAL.
CsvField(s) ==
    IF \E i \in 1..Len(s) : CharAt(s, i) \in {",", "\"", "\r", "\n"}
    THEN "\"" \o DoubleQuotes(s) \o "\""
    ELSE s

\* iss_writer.writerow(texts): the line written.
WriteRow(texts) ==
    IF texts = <<"">> THEN "\"\"\r\n"
    ELSE Join([i \in DOMAIN texts |-> CsvField(texts[i])], ",") \o "\r\n"

\* A line as readlines() returns it: text mode turns "\r\n" into "\n".
ReadLine(line) ==
    IF Len(line) >= 2 /\ SubSeq(line, Len(line) - 1, Len(line)) = "\r\n"
    THEN SubSeq(line, 1, Len(line) - 2) \o "\n"
    ELSE line

\* out_cols['attrs'] and out_cols['header'] (lines 399-402).
ColAttrs(out_cols) == [i \in DOMAIN out_cols |-> ReSplit(out_cols[i], ";")[1]]

ColHeader(out_cols) ==
    [i \in DOMAIN out_cols |->
        LET spl == ReSplit(out_cols[i], ";") IN IF Len(spl) >= 2 THEN spl[2] ELSE spl[1]]

\* name in idx, and idx[name] counted from 1 (lines 409-412).
HasIdx(col_attrs, name) == \E i \in DOMAIN col_attrs : col_attrs[i] = name

IdxOf(col_attrs, name) ==
    CHOOSE i \in DOMAIN col_attrs :
        col_attrs[i] = name /\ \A j \in DOMAIN col_attrs : col_attrs[j] = name => j <= i

\* f_mode with every existing file appended to, time series or not.
FMode_AppendsAlways(is_time_series, exists) == IF exists THEN "a" ELSE "w"

\* f_mode (lines 403-408).
FMode(is_time_series, exists) == IF is_time_series /\ exists THEN "a" ELSE "w"

\* The loop of lines 427-450 from the i-th record on; lines is the content of
\* the file so far.  A column naming a field the record lacks raises KeyError
\* at line 432, and what was written before stays in the file.
RECURSIVE WriteRows(_, _, _, _, _, _)
WriteRows(gh_attrs, i, col_attrs, last_date, last_time, lines) ==
    IF i > Len(gh_attrs) THEN [lines |-> lines, raised |-> ""]
    ELSE IF \E j \in DOMAIN col_attrs : col_attrs[j] \notin DOMAIN gh_attrs[i]
    THEN [lines |-> lines, raised |-> "KeyError"]
    ELSE LET gh_attr == gh_attrs[i]
             row == [j \in DOMAIN col_attrs |-> gh_attr[col_attrs[j]]]
             is_date == last_date # "" /\ row[IdxOf(col_attrs, "date")] # ""
             is_time == last_time # "" /\ row[IdxOf(col_attrs, "time")] # ""
             is_same_date == is_date /\ last_date = row[IdxOf(col_attrs, "date")]
             is_same_time == is_time /\ last_time = row[IdxOf(col_attrs, "time")]
             skipped == IF is_date /\ is_time THEN is_same_date /\ is_same_time
                        ELSE IF is_date /\ ~is_time THEN is_same_date
                        ELSE IF is_time /\ ~is_date THEN is_same_time
                        ELSE FALSE
             texts == [j \in DOMAIN col_attrs |-> FieldText(col_attrs[j], row[j])]
         IN  WriteRows(gh_attrs, i + 1, col_attrs, last_date, last_time,
                       IF skipped THEN lines ELSE Append(lines, WriteRow(texts)))

\* The file after the call, and the exception that ended it ("": none).
write_to_csv(yml_arepo, file, is_time_series) ==
    LET col_attrs == ColAttrs(yml_arepo.out_cols)
        f_mode == FMode(is_time_series, file.exists)
    IN  IF f_mode = "a" /\ file.lines = <<>>
        THEN [file |-> file, raised |-> "IndexError"]
        ELSE LET last_row_lst == ReSplit(ReadLine(file.lines[Len(file.lines)]), ",")
                 last_date == IF f_mode = "a" /\ HasIdx(col_attrs, "date")
                              THEN last_row_lst[IdxOf(col_attrs, "date")] ELSE ""
                 last_time == IF f_mode = "a" /\ HasIdx(col_attrs, "time")
                              THEN last_row_lst[IdxOf(col_attrs, "time")] ELSE ""
                 opened == IF f_mode = "w" THEN <<WriteRow(ColHeader(yml_arepo.out_cols))>>
                           ELSE file.lines
                 res == WriteRows(yml_arepo.gh_attrs, 1, col_attrs, last_date, last_time, opened)
             IN  [file |-> [exists |-> TRUE, lines |-> res.lines], raised |-> res.raised]

-----------------------------------------------------------------------------
(* collect_gh_attrs_wrapper (src/gh2csv.py:306-378) and run_arepo          *)
(* (src/gh2csv.py:454-536).  The io inheritance, the output path and the   *)
(* URL are left out: out_cols stands for yml[arepo]['io']['out_cols'] and  *)
(* every target has a file of its own.  The data source answers a request  *)
(* with one page.                                                          *)

\* params (lines 318, 342-343).
Params(yml_arepo) ==
    IF "filters" \in DOMAIN yml_arepo /\ "state" \in DOMAIN yml_arepo.filters
    THEN [state |-> yml_arepo.filters.state]
    ELSE EmptyDict

\* What the data source returns for the request: the open records when no
\* state is asked for, every record for "all", else the records in that state.
Get(issues, params) ==
    LET Wanted(issue) ==
            IF "state" \notin DOMAIN params THEN issue.state = "open"
            ELSE params.state = "all" \/ issue.state = params.state
    IN  SelectSeq(issues, Wanted)

\* Lines 320-338: a private target without a usable token.
TokenError(yml_arepo) ==
    yml_arepo.is_repo_private /\ ("token" \notin DOMAIN yml_arepo \/ yml_arepo.token = "")

\* The call for one target: whether it ended the process, the requests it
\* sent, the records it kept and yml[arepo] after it.  ok is r0.ok.
collect_gh_attrs_wrapper(yml_arepo, issues, ok) ==
    IF TokenError(yml_arepo)
    THEN [exit |-> TRUE, requests |-> <<>>, kept |-> <<>>, yml |-> yml_arepo]
    ELSE IF ~ok
    THEN [exit |-> TRUE, requests |-> <<Params(yml_arepo)>>, kept |-> <<>>, yml |-> yml_arepo]
    ELSE LET kept == collect_gh_attrs(yml_arepo, Get(issues, Params(yml_arepo))) IN
         [exit |-> FALSE, requests |-> <<Params(yml_arepo)>>, kept |-> kept,
          yml |-> [yml_arepo EXCEPT !.gh_attrs = @ \o kept]]

\* The counters keep what the previous run left in them.
CounterInit_CarriesOver(yml_arepo, k) == IF k \in DOMAIN yml_arepo THEN yml_arepo[k] ELSE 0

\* Lines 514-516: the value a counter starts from.
CounterInit(yml_arepo, k) == 0

\* The loop of lines 517-522 from the i-th record on.
RECURSIVE Tally(_, _, _)
Tally(gh_attrs, i, counts) ==
    IF i > Len(gh_attrs) THEN counts
    ELSE Tally(gh_attrs, i + 1,
               [num_iss_all |-> counts.num_iss_all + 1,
                num_iss_open |-> counts.num_iss_open
                                 + (IF Search("open", gh_attrs[i].state) THEN 1 ELSE 0),
                num_iss_closed |-> counts.num_iss_closed
                                   + (IF Search("closed", gh_attrs[i].state) THEN 1 ELSE 0)])

\* Lines 513-533: yml[arepo] after the aggregation at the instant today.
Aggregate(yml_arepo, today) ==
    LET counts == Tally(yml_arepo.gh_attrs, 1,
                        [num_iss_all |-> CounterInit(yml_arepo, "num_iss_all"),
                         num_iss_open |-> CounterInit(yml_arepo, "num_iss_open"),
                         num_iss_closed |-> CounterInit(yml_arepo, "num_iss_closed")])
        summary == [date |-> today.date, time |-> today.time,
                    num_iss_all |-> counts.num_iss_all,
                    num_iss_open |-> counts.num_iss_open,
                    num_iss_closed |-> counts.num_iss_closed]
    IN  Put(Put(Put(Put(yml_arepo, "num_iss_all", counts.num_iss_all),
                    "num_iss_open", counts.num_iss_open),
                "num_iss_closed", counts.num_iss_closed),
            "gh_attrs", <<summary>>)

\* What the body of the loop of run_arepo left behind.
Outcome(y, file, requests, kept, file_before, how, stamped) ==
    [yml |-> y, file |-> file, stamped |-> stamped,
     last |-> [requests |-> requests, collected |-> kept, file_before |-> file_before,
               outcome |-> how]]

\* The export at the end of the body (lines 535-536).
Export(y, file, is_time_series, requests, kept) ==
    LET wr == write_to_csv(y, file, is_time_series) IN
    Outcome(y, wr.file, requests, kept, file,
            IF wr.raised = "" THEN "done" ELSE wr.raised, is_time_series)

\* The body of the loop of run_arepo for one target (lines 470-536).
RunBody(yml_arepo, issues, file, ok1, ok2, today) ==
    LET y1 == Put(IF "filters" \in DOMAIN yml_arepo THEN yml_arepo
                  ELSE Put(yml_arepo, "filters", EmptyDict),
                  "gh_attrs", <<>>)
        is_time_series == "is_time_series" \in DOMAIN y1 /\ y1.is_time_series
        w1 == collect_gh_attrs_wrapper(y1, issues, ok1)
    IN  IF w1.exit
        THEN Outcome(w1.yml, file, w1.requests, <<>>, file, "sys.exit", FALSE)
        ELSE IF ~is_time_series
        THEN Export(w1.yml, file, FALSE, w1.requests, w1.kept)
        ELSE LET y2 == [w1.yml EXCEPT !.filters = Put(@, "state", "closed")]
                 w2 == collect_gh_attrs_wrapper(y2, issues, ok2)
             IN  IF w2.exit
                 THEN Outcome(w2.yml, file, w1.requests \o w2.requests, w1.kept, file,
                              "sys.exit", FALSE)
                 ELSE Export(Aggregate(w2.yml, today), file, TRUE,
                             w1.requests \o w2.requests, w1.kept \o w2.kept)

\* The instants datetime.today() can return, in the order of time.
Instants ==
    <<[date |-> "2024/01/01", time |-> "09:00:00"],
      [date |-> "2024/01/01", time |-> "21:00:00"],
      [date |-> "2024/01/02", time |-> "09:00:00"]>>

\* run_pos after the body for active_repos[run_pos] has ended.
NextPos == IF run_pos = Len(active_repos) THEN 0 ELSE run_pos + 1

\* run_arepo is entered (line 462): once, or by the scheduler again and again
\* (lines 542-549).  With no active target it returns at once.
StartRun ==
    /\ exited = "" /\ run_pos = 0 /\ runs < MaxRuns
    /\ runs = 0 \/ scheduled
    /\ runs' = runs + 1
    /\ attempted' = {}
    /\ run_pos' = IF active_repos = <<>> THEN 0 ELSE 1
    /\ UNCHANGED <<yml, yml_loaded, active_repos, scheduled, remote, files, exited,
                   last, clock, pc, filter_vars, interp_vars>>

\* Lines 467-468: a name in active_repos that the configuration does not hold.
SkipTarget ==
    /\ exited = "" /\ run_pos \in 1..Len(active_repos)
    /\ active_repos[run_pos] \notin DOMAIN yml
    /\ run_pos' = NextPos
    /\ UNCHANGED <<yml, yml_loaded, active_repos, scheduled, remote, files, runs,
                   exited, attempted, last, clock, pc, filter_vars, interp_vars>>

\* Lines 469-536 for the target active_repos[run_pos].
RunTarget ==
    /\ exited = "" /\ run_pos \in 1..Len(active_repos)
    /\ active_repos[run_pos] \in DOMAIN yml
    /\ \E ok1, ok2 \in BOOLEAN, k \in 1..Len(Instants) :
          LET arepo == active_repos[run_pos] IN
          /\ k >= clock
          /\ \E out \in {RunBody(yml[arepo], remote[arepo], files[arepo], ok1, ok2, Instants[k])} :
              /\ yml' = [yml EXCEPT ![arepo] = out.yml]
              /\ files' = [files EXCEPT ![arepo] = out.file]
              /\ last' = [last EXCEPT ![arepo] = out.last]
              /\ clock' = IF out.stamped THEN k ELSE clock
              /\ exited' = IF out.last.outcome = "done" THEN "" ELSE out.last.outcome
              /\ run_pos' = IF out.last.outcome = "done" THEN NextPos ELSE run_pos
              /\ attempted' = attempted \cup {arepo}
    /\ UNCHANGED <<yml_loaded, active_repos, scheduled, remote, runs, pc,
                   filter_vars, interp_vars>>

-----------------------------------------------------------------------------
(* Inputs of the pure functions.                                           *)

\* The number tokens a configuration can hold, by what they denote: the
\* integer beg (written as a YAML integer or as a YAML string) or the range
\* beg-end, with the white space of sep around its dash.
NumDescs ==
    {[form |-> "int", beg |-> 1, end |-> 1, sep |-> ""],
     [form |-> "int", beg |-> 5, end |-> 5, sep |-> ""],
     [form |-> "int", beg |-> 10, end |-> 10, sep |-> ""],
     [form |-> "str", beg |-> 7, end |-> 7, sep |-> ""],
     [form |-> "range", beg |-> 3, end |-> 5, sep |-> "-"],
     [form |-> "range", beg |-> 5, end |-> 3, sep |-> "-"],
     [form |-> "range", beg |-> 4, end |-> 4, sep |-> " - "],
     [form |-> "range", beg |-> 9, end |-> 11, sep |-> " - "],
     [form |-> "range", beg |-> 5, end |-> 10, sep |-> "- "]}

\* The YAML value that denotes d.
NumToken(d) ==
    CASE d.form = "int" -> YamlInt(d.beg)
      [] d.form = "str" -> YamlStr(Fmt(d.beg))
      [] d.form = "range" -> YamlStr(Fmt(d.beg) \o d.sep \o Fmt(d.end))

\* The integers d names.
Denotes(d) == IF d.form = "range" THEN {i \in 0..d.end : d.beg <= i} ELSE {d.beg}

\* The descriptor of a token text.
DescOf(text) == CHOOSE d \in NumDescs : Str(NumToken(d)) = text

NumSentinels == {YamlStr("all"), YamlStr("ALL")}

NumTokens == {NumToken(d) : d \in NumDescs} \cup NumSentinels

LabelTokens == {"bug", "wontfix", "-wontfix", "-bug", "all", "All", "small"}

RecLabels == {"bug", "wontfix", "docs"}

StringTokens == {"DCPS", "-BT", "BT", "-DCPS", "all", "install"}

Titles == {"DCPS cable", "BT", "EL"}

Bodies == {"", "BT off", "DCPS"}

RawRecord(n, labs, title, body) ==
    [number |-> n, title |-> title, body |-> body, state |-> "open", labels |-> labs]

\* The variables of the parts of the program a specification leaves alone.
InterpIdle == nums_inp = <<>> /\ nums_out = <<>>

FilterIdle == filters = EmptyDict /\ attrs_raw = <<>> /\ attrs = <<>>

RunIdle ==
    /\ yml = EmptyDict /\ yml_loaded = EmptyDict /\ active_repos = <<>>
    /\ scheduled = FALSE /\ remote = EmptyDict /\ files = EmptyDict
    /\ run_pos = 0 /\ runs = 0 /\ exited = ""
    /\ attempted = {} /\ last = EmptyDict /\ clock = 0

-----------------------------------------------------------------------------
(* The pure functions as state machines: Init draws the arguments, the     *)
(* action applies the function.                                            *)

InitInterp ==
    /\ nums_inp \in SeqsUpTo({Str(NumToken(d)) : d \in NumDescs}, MaxNumTokens)
    /\ nums_out = <<>>
    /\ pc = "input"
    /\ FilterIdle /\ RunIdle

Interpolate ==
    /\ pc = "input"
    /\ nums_out' = interpolate_nums(nums_inp)
    /\ pc' = "done"
    /\ UNCHANGED <<nums_inp, filter_vars, run_vars>>

SpecInterp == InitInterp /\ [][Interpolate]_vars

InitNumbers ==
    /\ filters \in {[numbers |-> l] : l \in SeqsUpTo(NumTokens, MaxNumTokens)}
    /\ attrs_raw \in {<<RawRecord(n, <<>>, "EL", "")>> : n \in 0..MaxNumber}
    /\ attrs = <<>>
    /\ pc = "input"
    /\ InterpIdle /\ RunIdle

InitLabels ==
    /\ filters \in {[labels |-> l] : l \in SeqsUpTo(LabelTokens, MaxLabelTokens)}
    /\ attrs_raw \in {<<RawRecord(1, labs, "EL", "")>> : labs \in SeqsUpTo(RecLabels, MaxRecLabels)}
    /\ attrs = <<>>
    /\ pc = "input"
    /\ InterpIdle /\ RunIdle

InitStrings ==
    /\ filters \in {[strings |-> l] : l \in SeqsUpTo(StringTokens, MaxStringTokens)}
    /\ attrs_raw \in {<<RawRecord(1, <<>>, t, b)>> : t \in Titles, b \in Bodies}
    /\ attrs = <<>>
    /\ pc = "input"
    /\ InterpIdle /\ RunIdle

\* Filter specs in which any of the three predicates may be configured.
ComposeNumbers == {<<YamlStr("all")>>, <<YamlInt(5)>>, <<YamlStr("3-5"), YamlInt(1)>>}

ComposeLabels == {<<"bug">>, <<"all", "-wontfix">>, <<"bug", "-wontfix">>, <<"docs">>}

ComposeStrings == {<<"DCPS", "-BT">>, <<"all">>, <<"-BT">>, <<"BT">>}

\* dict(f, **g)
Merge(f, g) == [k \in DOMAIN f \cup DOMAIN g |-> IF k \in DOMAIN g THEN g[k] ELSE f[k]]

ComposeFilters ==
    {Merge(Merge(n, l), s) :
        n \in {EmptyDict} \cup {[numbers |-> x] : x \in ComposeNumbers},
        l \in {EmptyDict} \cup {[labels |-> x] : x \in ComposeLabels},
        s \in {EmptyDict} \cup {[strings |-> x] : x \in ComposeStrings}}

InitCompose ==
    /\ filters \in ComposeFilters
    /\ attrs_raw \in {<<RawRecord(n, labs, t, b)>> :
                        n \in {4, 6}, labs \in SeqsUpTo(RecLabels, MaxRecLabels),
                        t \in Titles, b \in Bodies}
    /\ attrs = <<>>
    /\ pc = "input"
    /\ InterpIdle /\ RunIdle

Collect ==
    /\ pc = "input"
    /\ attrs' = collect_gh_attrs([filters |-> filters], attrs_raw)
    /\ pc' = "done"
    /\ UNCHANGED <<filters, attrs_raw, interp_vars, run_vars>>

SpecNumbers == InitNumbers /\ [][Collect]_vars

SpecLabels == InitLabels /\ [][Collect]_vars

SpecStrings == InitStrings /\ [][Collect]_vars

SpecCompose == InitCompose /\ [][Collect]_vars

\* Either a labels list or a strings list is configured, nothing else.
InitLabelsOrStrings == InitLabels \/ InitStrings

SpecLabelsOrStrings == InitLabelsOrStrings /\ [][Collect]_vars

-----------------------------------------------------------------------------
(* The program as a whole: configurations, and the runs of run_arepo.      *)

\* What the data source can hold for a target: up to MaxIssues records,
\* numbered in order, each open or closed.
IssueLists ==
    {[i \in DOMAIN q |-> [number |-> i, title |-> "EL", body |-> "",
                          state |-> q[i], labels |-> <<"bug">>]] :
        q \in SeqsUpTo({"open", "closed"}, MaxIssues)}

TokenConfigs ==
    {[is_repo_private |-> FALSE],
     [is_repo_private |-> TRUE, token |-> "ghp"],
     [is_repo_private |-> TRUE],
     [is_repo_private |-> TRUE, token |-> ""]}

FilterConfigs ==
    {EmptyDict,
     [filters |-> [state |-> "open"]],
     [filters |-> [state |-> "all"]],
     [filters |-> [state |-> "closed"]],
     [filters |-> [numbers |-> <<YamlInt(1)>>]]}

\* Column lists for the summary record of a time-series target ...
SeriesCols ==
    {<<"date", "time", "num_iss_all", "num_iss_open", "num_iss_closed">>,
     <<"date; Date", "num_iss_all; All">>,
     <<"num_iss_all", "date">>,
     <<"time", "num_iss_open">>,
     <<"num_iss_all", "date", "time">>,
     <<"num_iss_all", "num_iss_open", "num_iss_closed">>}

\* ... and for the records of any other target; no record has a milestone.
RecordCols ==
    {<<"number; No.", "state", "title">>,
     <<"number", "labels", "milestone">>}

TargetConfigs(tokens, series, filts, cols) ==
    {Merge(Merge(tok, flt), [is_time_series |-> ts, out_cols |-> c]) :
        tok \in tokens, flt \in filts, ts \in series, c \in cols}

\* One target, every configuration.
InitSingle ==
    /\ active_repos = <<"t1">>
    /\ yml \in [{"t1"} -> TargetConfigs(TokenConfigs, BOOLEAN, FilterConfigs,
                                        SeriesCols \cup RecordCols)]
    /\ remote \in [{"t1"} -> IssueLists]

\* Several targets, some of which fail.
InitSeveral ==
    /\ active_repos \in {<<"t1", "t2">>, <<"t2", "t3", "t1">>, <<>>}
    /\ yml \in [{"t1", "t2"} -> TargetConfigs(TokenConfigs, {FALSE}, {EmptyDict}, RecordCols)]
    /\ remote \in [{"t1", "t2"} -> {q \in IssueLists : Len(q) = 1}]

Init ==
    /\ InitSingle \/ InitSeveral
    /\ yml_loaded = yml
    /\ scheduled \in BOOLEAN
    /\ files = [t \in DOMAIN yml |-> NoFile]
    /\ last = [t \in DOMAIN yml |->
                 [requests |-> <<>>, collected |-> <<>>, file_before |-> NoFile,
                  outcome |-> "none"]]
    /\ run_pos = 0 /\ runs = 0 /\ exited = "" /\ attempted = {} /\ clock = 0
    /\ pc = "done"
    /\ InterpIdle /\ FilterIdle

\* Between two runs a record of the data source is closed.
IssueClosed ==
    /\ exited = "" /\ run_pos = 0 /\ runs \in 1..(MaxRuns - 1) /\ scheduled
    /\ \E t \in DOMAIN remote, i \in 1..MaxIssues :
          /\ i \in DOMAIN remote[t]
          /\ remote[t][i].state = "open"
          /\ remote' = [remote EXCEPT ![t][i].state = "closed"]
    /\ UNCHANGED <<yml, yml_loaded, active_repos, scheduled, files, run_pos, runs,
                   exited, attempted, last, clock, pc, filter_vars, interp_vars>>

Next == StartRun \/ SkipTarget \/ RunTarget \/ IssueClosed

Spec == Init /\ [][Next]_vars

-----------------------------------------------------------------------------
(* Properties of the filter predicates and of interpolate_nums.            *)

\* The one record of the page was kept.
Kept == attrs # <<>>

\* Some configured token is the sentinel "all", in any letter case.
HasSentinel(tokens) == \E i \in DOMAIN tokens : Lower(tokens[i]) = "all"

\* Some label of the record is excluded by the configured list.
LabelExcluded == \E n \in Range(attrs_raw[1].labels) : ("-" \o n) \in Range(filters.labels)

\* Some label of the record appears in the configured list.
LabelListed == \E n \in Range(attrs_raw[1].labels) : n \in Range(filters.labels)

\* C1: with only a labels filter configured, a record one of whose labels is
\* excluded ("-" + name in the list) is dropped; a record with no excluded
\* label is kept exactly when the list holds the sentinel "all" or one of the
\* record's label names.
C1_LabelsPredicate ==
    (pc = "done" /\ DOMAIN filters = {"labels"}) =>
        (Kept <=> (~LabelExcluded /\ (HasSentinel(filters.labels) \/ LabelListed)))

\* The exclusion half of C1 alone: an excluded label drops the record, where
\* ever it stands among the record's labels and whatever else is configured.
LabelsExclusionWins ==
    (pc = "done" /\ DOMAIN filters = {"labels"} /\ LabelExcluded) => ~Kept

\* C1 with the sentinel replaced by what line 262 tests: the letters "all"
\* anywhere in the joined list.
LabelsPredicateAsCoded ==
    (pc = "done" /\ DOMAIN filters = {"labels"}) =>
        (Kept <=> (~LabelExcluded /\ (SearchNoCase("all", Join(filters.labels, ";"))
                                      \/ LabelListed)))

\* The token s is found in the title or the body of the record.
Found(s) == Search(s, attrs_raw[1].title) \/ Search(s, attrs_raw[1].body)

IsExclusionToken(s) == s # "" /\ CharAt(s, 1) = "-"

\* Some exclusion token, its "-" prefix stripped, is found in the record.
StringExcluded ==
    \E s \in Range(filters.strings) : IsExclusionToken(s) /\ Found(Rest(s, 2))

\* Some inclusion token is found in the record.
StringIncluded == \E s \in Range(filters.strings) : ~IsExclusionToken(s) /\ Found(s)

\* C2: with only a strings filter configured, a record in whose title or body
\* an exclusion token is found is dropped, whatever the order of the tokens;
\* otherwise the record is kept exactly when the list holds the sentinel "all"
\* or an inclusion token is found in the title or the body.
C2_StringsPredicate ==
    (pc = "done" /\ DOMAIN filters = {"strings"}) =>
        (Kept <=> (~StringExcluded /\ (HasSentinel(filters.strings) \/ StringIncluded)))

\* The exclusion half of C2 alone.
StringsExclusionWins ==
    (pc = "done" /\ DOMAIN filters = {"strings"} /\ StringExcluded) => ~Kept

\* C2 with the sentinel replaced by what line 284 tests.
StringsPredicateAsCoded ==
    (pc = "done" /\ DOMAIN filters = {"strings"}) =>
        (Kept <=> (~StringExcluded /\ (SearchNoCase("all", Join(filters.strings, ";"))
                                       \/ StringIncluded)))

\* Some configured string, a leading "-" stripped, is found in the record.
AnyStringFound == StringIncluded \/ StringExcluded

\* No configured token holds the letters "all", in any letter case.
NoAllLetters(tokens) == \A i \in DOMAIN tokens : ~SearchNoCase("all", tokens[i])

\* C11: when no configured token is the sentinel "all" (a whole token, in any
\* letter case), a record none of whose labels appears in the configured
\* labels list is dropped, and a record in which none of the configured
\* strings is found is dropped, also when a configured token holds the
\* letters "all" inside a longer name ("small", "install").
C11_DefaultDropWithoutSentinel ==
    pc = "done" =>
        /\ (DOMAIN filters = {"labels"} /\ ~HasSentinel(filters.labels) /\ ~LabelListed)
              => ~Kept
        /\ (DOMAIN filters = {"strings"} /\ ~HasSentinel(filters.strings) /\ ~AnyStringFound)
              => ~Kept

\* C11 for the lists none of whose tokens holds the letters "all": there the
\* default is drop.
DefaultDropWithoutAllLetters ==
    pc = "done" =>
        /\ (DOMAIN filters = {"labels"} /\ NoAllLetters(filters.labels) /\ ~LabelListed)
              => ~Kept
        /\ (DOMAIN filters = {"strings"} /\ NoAllLetters(filters.strings) /\ ~AnyStringFound)
              => ~Kept

\* The default is keep as soon as a token holds the letters "all", sentinel
\* or not, unless the record is excluded.
DefaultKeepWithAllLetters ==
    pc = "done" =>
        /\ (DOMAIN filters = {"labels"} /\ ~NoAllLetters(filters.labels) /\ ~LabelExcluded)
              => Kept
        /\ (DOMAIN filters = {"strings"} /\ ~NoAllLetters(filters.strings) /\ ~StringExcluded)
              => Kept

\* The states that refute C11: a list without the sentinel and with a token
\* that holds its letters, and a record kept that nothing configured names.
KeptBySmall ==
    /\ pc = "done" /\ DOMAIN filters = {"labels"}
    /\ ~HasSentinel(filters.labels) /\ "small" \in Range(filters.labels)
    /\ attrs_raw[1].labels # <<>> /\ ~LabelListed /\ Kept

KeptByInstall ==
    /\ pc = "done" /\ DOMAIN filters = {"strings"}
    /\ ~HasSentinel(filters.strings) /\ "install" \in Range(filters.strings)
    /\ ~AnyStringFound /\ Kept

\* The configured numbers as the strings line 245 makes of them.
NumberTexts == [i \in DOMAIN filters.numbers |-> Str(filters.numbers[i])]

\* C3: with only a numbers filter configured, every record is kept when the
\* list holds the sentinel "all" in any letter case; otherwise a record is
\* kept if and only if its number is a member of interpolate_nums of the list.
C3_NumbersPredicate ==
    (pc = "done" /\ DOMAIN filters = {"numbers"}) =>
        IF HasSentinel(NumberTexts) THEN Kept
        ELSE Kept <=> (attrs_raw[1].number \in Range(interpolate_nums(NumberTexts)))

\* A record kept by a range token that does not name it as an end point, and
\* in the same run of the model no sentinel.
C3_Witness ==
    /\ pc = "done" /\ DOMAIN filters = {"numbers"}
    /\ ~HasSentinel(NumberTexts) /\ Kept
    /\ \E i \in DOMAIN NumberTexts :
          /\ Search("-", NumberTexts[i])
          /\ DescOf(NumberTexts[i]).beg < attrs_raw[1].number
          /\ attrs_raw[1].number < DescOf(NumberTexts[i]).end

\* A record kept by the sentinel although its number is not configured.
C3_WitnessSentinel ==
    /\ pc = "done" /\ DOMAIN filters = {"numbers"}
    /\ Len(NumberTexts) > 1 /\ HasSentinel(NumberTexts) /\ Kept
    /\ \A i \in DOMAIN NumberTexts :
          Lower(NumberTexts[i]) # "all" => attrs_raw[1].number \notin Denotes(DescOf(NumberTexts[i]))

\* C9: for tokens that are integers or ranges beg-end, the result holds
\* exactly the integers the tokens name (a range with beg > end names none),
\* each once, in strictly ascending order.
C9_InterpolateNums ==
    pc = "done" =>
        /\ \A i \in 1..(Len(nums_out) - 1) : nums_out[i] < nums_out[i + 1]
        /\ Range(nums_out) = UNION {Denotes(DescOf(nums_inp[i])) : i \in DOMAIN nums_inp}

\* A list with a reversed range and a proper one: the result holds the
\* integers of the proper range and nothing else.
C9_Witness ==
    /\ pc = "done"
    /\ \E i, j \in DOMAIN nums_inp :
          /\ DescOf(nums_inp[i]).form = "range" /\ DescOf(nums_inp[i]).beg > DescOf(nums_inp[i]).end
          /\ DescOf(nums_inp[j]).form = "range" /\ DescOf(nums_inp[j]).beg < DescOf(nums_inp[j]).end
          /\ Len(nums_out) = Cardinality(Denotes(DescOf(nums_inp[j])))

\* A list that names an integer twice, once by a range.
C9_WitnessDuplicate ==
    /\ pc = "done"
    /\ \E i, j \in DOMAIN nums_inp :
          /\ DescOf(nums_inp[i]).form = "range" /\ DescOf(nums_inp[j]).form # "range"
          /\ DescOf(nums_inp[j]).beg \in Denotes(DescOf(nums_inp[i]))
          /\ Len(nums_out) = Cardinality(Denotes(DescOf(nums_inp[i])))

\* A reversed range alone yields the empty list.
C9_WitnessReversed ==
    /\ pc = "done" /\ nums_inp # <<>> /\ nums_out = <<>>
    /\ \A i \in DOMAIN nums_inp : DescOf(nums_inp[i]).beg > DescOf(nums_inp[i]).end

\* The decision of the predicate k evaluated alone on the record (kept when
\* k is not configured).
Alone(k) ==
    IF k \in DOMAIN filters
    THEN collect_gh_attrs([filters |-> [j \in {k} |-> filters[j]]], attrs_raw) # <<>>
    ELSE TRUE

\* C10: the final decision is the conjunction of the decisions the numbers,
\* labels and strings predicates yield alone; a record dropped by an earlier
\* predicate is not restored by a later one.
C10_Composition ==
    pc = "done" => (Kept <=> (Alone("numbers") /\ Alone("labels") /\ Alone("strings")))

\* A record the numbers predicate drops and both later predicates would keep.
C10_Witness ==
    /\ pc = "done" /\ DOMAIN filters = {"numbers", "labels", "strings"}
    /\ ~Alone("numbers") /\ Alone("labels") /\ Alone("strings") /\ ~Kept

-----------------------------------------------------------------------------
(* Properties of the runs.                                                 *)

Series(t) == yml_loaded[t].is_time_series

\* The last pipeline of t ran to its end, write_to_csv included.
Completed(t) == last[t].outcome = "done"

\* The summary record of the last pipeline of a time-series target.
SummaryOf(t) == yml[t].gh_attrs[1]

\* The columns of t that name the date or the time of the summary record.
KeyCols(t) == {i \in DOMAIN yml[t].out_cols : ColAttrs(yml[t].out_cols)[i] \in {"date", "time"}}

\* The field values of a line of the file.
FieldsOf(line) == ReSplit(SubSeq(line, 1, Len(line) - 2), ",")

\* The new row has, in every key column, the value of the last line of the
\* file as it was before the call.
SameKeys(t) ==
    LET before == last[t].file_before.lines IN
    \A i \in KeyCols(t) :
        FieldsOf(before[Len(before)])[i] = SummaryOf(t)[ColAttrs(yml[t].out_cols)[i]]

\* write_to_csv left the file as it was.
RowSkipped(t) == files[t].lines = last[t].file_before.lines

\* C4: in time-series mode with an existing destination, the new row is
\* skipped if and only if every configured key column (date, time or both)
\* has the value of the destination's last line, wherever the key columns
\* stand in the column order.
C4_SkipIffSameKeys ==
    \A t \in DOMAIN yml :
        (Series(t) /\ Completed(t) /\ last[t].file_before.exists /\ KeyCols(t) # {})
            => (RowSkipped(t) <=> SameKeys(t))

\* C4 for the column orders in which the last column is no key column.
SkipIffSameKeys_KeyNotLast ==
    \A t \in DOMAIN yml :
        (Series(t) /\ Completed(t) /\ last[t].file_before.exists /\ KeyCols(t) # {}
         /\ Len(yml[t].out_cols) \notin KeyCols(t))
            => (RowSkipped(t) <=> SameKeys(t))

\* C5: every pipeline of a time-series target, in the first run and in every
\* later one, sends exactly two requests: the first with the state constraint
\* of the configuration as loaded (none when none is configured), the second
\* with state "closed".
C5_TwoFetches ==
    \A t \in DOMAIN yml :
        (Series(t) /\ Completed(t))
            => last[t].requests = <<Params(yml_loaded[t]), [state |-> "closed"]>>

\* C5 for the first run alone.
TwoFetches_FirstRun ==
    \A t \in DOMAIN yml :
        (Series(t) /\ Completed(t) /\ runs = 1)
            => last[t].requests = <<Params(yml_loaded[t]), [state |-> "closed"]>>

\* C6: when a run is over, by its end or by the end of the process, every
\* configured target of active_repos was attempted in it, whatever failed.
C6_TargetsIndependent ==
    ((exited # "") \/ (run_pos = 0 /\ runs > 0))
        => \A i \in DOMAIN active_repos :
              active_repos[i] \in DOMAIN yml => active_repos[i] \in attempted

IsPrefix(p, q) == Len(p) <= Len(q) /\ SubSeq(q, 1, Len(p)) = p

HeaderLine(t) == WriteRow(ColHeader(yml[t].out_cols))

\* The lines csv.writer makes of the records the last pipeline collected.
RecordLines(t) ==
    [i \in DOMAIN last[t].collected |->
        WriteRow([j \in DOMAIN yml[t].out_cols |->
            LET name == ColAttrs(yml[t].out_cols)[j] IN
            FieldText(name, last[t].collected[i][name])])]

\* C7: in time-series mode the file starts with the header, written once by
\* the run that creates the file, and a later run only appends to what the
\* file held; with time-series mode off the file holds, after every run, the
\* header and the rows of that run and nothing else.
C7_FileLifecycle ==
    \A t \in DOMAIN yml :
        Completed(t) =>
            IF Series(t)
            THEN /\ files[t].lines[1] = HeaderLine(t)
                 /\ \A i \in 2..Len(files[t].lines) : files[t].lines[i] # HeaderLine(t)
                 /\ last[t].file_before.exists
                        => IsPrefix(last[t].file_before.lines, files[t].lines)
            ELSE files[t].lines = <<HeaderLine(t)>> \o RecordLines(t)

\* A later run of a time-series target has appended a row to an existing file.
C7_Witness ==
    \E t \in DOMAIN yml :
        /\ Series(t) /\ Completed(t) /\ runs > 1
        /\ last[t].file_before.exists
        /\ Len(files[t].lines) > Len(last[t].file_before.lines)

\* A later run of another target has rewritten an existing file.
C7_WitnessRewritten ==
    \E t \in DOMAIN yml :
        /\ ~Series(t) /\ Completed(t) /\ runs > 1
        /\ last[t].file_before.exists /\ Len(files[t].lines) > 1

\* C8: a time-series pipeline leaves exactly one summary record; its
\* num_iss_all is the number of records collected in that pipeline, its
\* num_iss_open and num_iss_closed the numbers of those whose state contains
\* "open" and "closed"; nothing of an earlier run is counted.
C8_Summary ==
    \A t \in DOMAIN yml :
        (Series(t) /\ last[t].outcome \in {"done", "KeyError"}) =>
            /\ Len(yml[t].gh_attrs) = 1
            /\ SummaryOf(t).num_iss_all = Len(last[t].collected)
            /\ SummaryOf(t).num_iss_open =
                  Cardinality({i \in DOMAIN last[t].collected :
                                  Search("open", last[t].collected[i].state)})
            /\ SummaryOf(t).num_iss_closed =
                  Cardinality({i \in DOMAIN last[t].collected :
                                  Search("closed", last[t].collected[i].state)})

\* A second run on the same configuration object, with records to count.
C8_Witness ==
    \E t \in DOMAIN yml :
        /\ Series(t) /\ Completed(t) /\ runs > 1
        /\ SummaryOf(t).num_iss_all > 1

\* A first run that counts open and closed records.
C8_WitnessFirstRun ==
    \E t \in DOMAIN yml :
        /\ Series(t) /\ Completed(t) /\ runs = 1
        /\ SummaryOf(t).num_iss_open > 0 /\ SummaryOf(t).num_iss_closed > 0

====
